---- MODULE Spec2Model ----
(***************************************************************************)
(* State-machine model of tbman (src/tbman.cpp): a token-based pool memory *)
(* manager.  Three tiers: token_manager_s (one pool, a stack of block      *)
(* tokens), block_manager_s (the pools of one block size, ordered full,    *)
(* free, empty) and tbman_s (one block manager per size class, the two     *)
(* btrees and the platform allocator behind them).                         *)
(*                                                                         *)
(* Addresses are integers, NULL is 0.  A C array index k is kept as in the *)
(* source (0-based); the vector data[0..size) is the sequence data with    *)
(* data[k] of the source at position k+1.                                  *)
(***************************************************************************)
EXTENDS Integers, Sequences, FiniteSets, TLC

\* ---------------------------------------------------------------- bounds
\* number of TBMAN_ALIGN-sized slots of platform memory above address 0
HeapSlots == 6
\* blocks a client holds at a time (the client stops allocating beyond it)
MaxLive == 2
\* largest max_block_size, and largest stepping_method, of the constructor
\* arguments the size-class ladder is generated for
MaxLadderBlock == 20
MaxStepping == 3
\* alloc/free pairs each of the threads sharing a Manager performs
MaxPairs == 2
\* largest pool_size exponent, and largest block_size, of the small pools
\* token_manager_s_create is applied to
MaxPoolExp == 9
MaxCreateBlock == 40
\* pool-sized slots of platform memory, and blocks a client holds at a time,
\* where the pools of a block manager are filled, emptied and swept
PoolSlots == 9
MaxHeld == 9
\* calls this client makes once it has stopped filling the pools
MaxChurn == 3

\* ---------------------------------------------------- program constants
TBMAN_ALIGN == 256
\* sizeof(token_manager_s) on an LP64 build: 2 size_t, 2 uint16_t, bool,
\* padding, pointer, size_t
sizeof_token_manager_s == 40
\* width of uint16_t (stack_size, stack_index, tokens)
UINT16 == 65536

NULL == 0

\* Manager configurations (arguments of tbman_s_create); the pool and block
\* sizes are scaled down from the defaults so that a pool holds few blocks.
\* The third one has a max_block_size that is no doubling of min_block_size.
Configs ==
  { [pool_size |-> 512, min_block_size |-> 128, max_block_size |-> 256,
     stepping_method |-> 1, full_align |-> TRUE],
    [pool_size |-> 512, min_block_size |-> 128, max_block_size |-> 256,
     stepping_method |-> 1, full_align |-> FALSE],
    [pool_size |-> 512, min_block_size |-> 128, max_block_size |-> 320,
     stepping_method |-> 1, full_align |-> TRUE] }

\* request sizes the clients use: inside a class, exactly a class size, one
\* above it, and oversize requests around the keep-in-place threshold
ReqSizes == {1, 128, 129, 256, 257, 515, 516}

VARIABLES
  cfg,             \* constructor arguments of this Manager
  data,            \* tbman_s.data: the block managers, by increasing block size
  tm,              \* the token managers (pool headers), by pool base address
  internal_btree,  \* tbman_s.internal_btree: set of pool base addresses
  external_btree,  \* tbman_s.external_btree: external pointer -> size
  aligned,         \* tbman_s.aligned
  heap,            \* platform allocator: base address -> size of each block in use
  err,             \* "none", or the message of the ERR that aborted the process
  live,            \* client view: pointer -> granted size of each block it holds
  last,            \* client view: the public call that has just returned (its
                   \* arguments, its result, the state it was made in), or idle
  mutex,           \* tbman_s.mutex: NULL, or the thread that holds it
  th               \* the threads sharing the Manager: where each one is in
                   \* the entry point it runs, and its locals (<<>>: one
                   \* client, whose calls run from entry to return)

vars == <<cfg, data, tm, internal_btree, external_btree, aligned, heap, err,
          live, last, mutex, th>>

\* ------------------------------------------------------------- helpers
RECURSIVE Pow2(_)
Pow2(k) == IF k = 0 THEN 1 ELSE 2 * Pow2(k - 1)

RECURSIVE BitAnd(_, _)
BitAnd(a, b) ==
  IF a = 0 \/ b = 0 THEN 0
  ELSE (a % 2) * (b % 2) + 2 * BitAnd(a \div 2, b \div 2)

RECURSIVE SumSeq(_)
SumSeq(s) == IF s = <<>> THEN 0 ELSE Head(s) + SumSeq(Tail(s))

RECURSIVE SumFun(_)
SumFun(f) ==
  IF DOMAIN f = {} THEN 0
  ELSE LET k == CHOOSE x \in DOMAIN f : TRUE
       IN f[k] + SumFun([x \in DOMAIN f \ {k} |-> f[x]])

RECURSIVE Concat(_)
Concat(ss) == IF ss = <<>> THEN <<>> ELSE Head(ss) \o Concat(Tail(ss))

\* f without key k, and f with k -> v
Drop(f, k) == [x \in DOMAIN f \ {k} |-> f[x]]
Put(f, k, v) == [x \in DOMAIN f \cup {k} |-> IF x = k THEN v ELSE f[x]]

\* keys of a function in increasing order (btree traversal order)
RECURSIVE SortedKeys(_)
SortedKeys(S) ==
  IF S = {} THEN <<>>
  ELSE LET k == CHOOSE x \in S : \A y \in S : x <= y
       IN <<k>> \o SortedKeys(S \ {k})

\* ------------------------------------------------- platform allocator
Addrs == {k * TBMAN_ALIGN : k \in 1..HeapSlots}
HeapEnd == (HeapSlots + 1) * TBMAN_ALIGN

\* addresses the platform can return for an aligned allocation: the block
\* lies in platform memory and overlaps no block in use
PlatformFits(h, align, size) ==
  {a \in Addrs :
     /\ a % align = 0
     /\ a + size <= HeapEnd
     /\ \A b \in DOMAIN h : a + size <= b \/ b + h[b] <= a}

\* ------------------------------------------------- btree (external code)
btree_vd_s_largest_below_equal(tree, ptr) ==
  IF {k \in tree : k <= ptr} = {} THEN NULL
  ELSE CHOOSE k \in tree : k <= ptr /\ \A j \in tree : j <= ptr => j <= k

\* v bound to x in F(x), v evaluated once
Let(v, F(_)) == CHOOSE y \in {F(x) : x \in {v}} : TRUE

\* ERR(...): the message is recorded and the process aborts
Fail(m, msg) == [m EXCEPT !.err = msg]

\* ---------------------------------------------------------- Token-Manager
\* reserved_blocks of token_manager_s_create: the blocks that hold the
\* header and the token stack
reserved_blocks(pool_size, block_size) ==
  LET stack_size == pool_size \div block_size
      reserved_size == sizeof_token_manager_s + 2 * stack_size
  IN (reserved_size \div block_size)
       + (IF reserved_size % block_size > 0 THEN 1 ELSE 0)

\* token_manager_s_create with the platform returning address a; the header
\* is placed at a.  Result: the new state and the address of the header.
token_manager_s_create(m, pool_size, block_size, align, a) ==
  LET stack_size == pool_size \div block_size
      rb == reserved_blocks(pool_size, block_size)
      preq == <<(IF align THEN pool_size ELSE TBMAN_ALIGN), pool_size>>
      o == [pool_size |-> pool_size,
            block_size |-> block_size,
            stack_size |-> stack_size % UINT16,
            stack_index |-> 0,
            aligned |-> (a % pool_size = 0),
            parent |-> NULL,
            parent_index |-> 0,
            token_stack |->
              [i \in 0..((stack_size % UINT16) - 1) |->
                 IF i + rb < stack_size THEN (i + rb) % UINT16 ELSE 0]]
  IN IF BitAnd(pool_size, pool_size - 1) # 0
       THEN [m |-> Fail(m, "pool_size is not a power of two"), o |-> NULL]
     ELSE IF stack_size > UINT16
       THEN [m |-> Fail(m, "stack_size exceeds 0x10000"), o |-> NULL]
     ELSE IF stack_size < rb + 1
       THEN [m |-> Fail(m, "pool_size is too small"), o |-> NULL]
     ELSE IF a = NULL
       THEN [m |-> [m EXCEPT !.preq = preq, !.err = "Failed allocating"],
             o |-> NULL]
     ELSE [m |-> [m EXCEPT !.preq = preq,
                           !.heap = Put(@, a, pool_size),
                           !.tm = Put(@, a, o)],
           o |-> a]

\* token_manager_s_discard after which the Manager counts as aligned again
\* when every pool that is left is aligned
token_manager_s_discard_realign(m, base) ==
  [m EXCEPT !.heap = Drop(@, base), !.tm = Drop(@, base),
            !.aligned = \A b \in DOMAIN m.tm \ {base} : m.tm[b].aligned]

\* token_manager_s_discard: the pool goes back to the platform
token_manager_s_discard(m, base) ==
  [m EXCEPT !.heap = Drop(@, base), !.tm = Drop(@, base)]

token_manager_s_is_full(o) == o.token_stack[o.stack_index] = 0

token_manager_s_is_empty(o) == o.stack_index = 0

\* token_manager_s_alloc on the pool at base: the block address and the
\* updated header
token_manager_s_alloc(o, base) ==
  [ret |-> base + o.token_stack[o.stack_index] * o.block_size,
   o |-> [o EXCEPT !.stack_index = (@ + 1) % UINT16]]

\* token_manager_s_total_alloc counting every slot of the token stack
token_manager_s_total_alloc_all(o) == o.block_size * o.stack_size

\* block_size * stack_index
token_manager_s_total_alloc(o) == o.block_size * o.stack_index

token_manager_s_total_instances(o) == o.stack_index

\* the (pointer, size) pairs token_manager_s_for_each_instance passes to cb
token_manager_s_for_each_instance(o, base) ==
  [i \in 1..o.stack_index |->
     <<base + o.token_stack[i - 1] * o.block_size, o.block_size>>]

\* ---------------------------------------------------------- Block-Manager
\* sweep_hysteresis = 0.125 = 1 / sweep_hysteresis_inv
sweep_hysteresis_inv == 8

block_manager_s_create(pool_size, block_size, align) ==
  [pool_size |-> pool_size, block_size |-> block_size, align |-> align,
   data |-> <<>>, space |-> 0, free_index |-> 0, aligned |-> TRUE]

tbman_s_lost_alignment(m) == [m EXCEPT !.aligned = FALSE]

\* the first part of block_manager_s_alloc, taken when free_index == size:
\* a token manager is created at a, appended to data and registered
block_manager_s_alloc_create(m, c, a) ==
  LET o == m.data[c]
      size == Len(o.data)
  IN Let(token_manager_s_create(m, o.pool_size, o.block_size, o.align, a),
         LAMBDA cr :
           IF cr.m.err # "none" THEN cr.m
           ELSE Let([cr.m EXCEPT
                       !.data[c].space =
                          IF size = @ THEN (IF @ > 0 THEN @ * 2 ELSE 1) ELSE @,
                       !.data[c].data = Append(@, cr.o),
                       !.tm[cr.o].parent_index = size,
                       !.tm[cr.o].parent = c],
                    LAMBDA m1 :
                      Let(IF o.aligned /\ ~m1.tm[cr.o].aligned
                            THEN tbman_s_lost_alignment(
                                   [m1 EXCEPT !.data[c].aligned = FALSE])
                            ELSE m1,
                          LAMBDA m2 :
                            IF cr.o \in m2.internal_btree
                              THEN Fail(m2, "Failed registering block address.")
                              ELSE [m2 EXCEPT !.internal_btree = @ \cup {cr.o}])))

\* the second part of block_manager_s_alloc: the block comes from the token
\* manager at free_index
block_manager_s_alloc_take(m, c) ==
  LET child == m.data[c].data[m.data[c].free_index + 1]
  IN Let(token_manager_s_alloc(m.tm[child], child),
         LAMBDA al :
           [m |-> [m EXCEPT !.tm[child] = al.o,
                            !.data[c].free_index =
                               IF token_manager_s_is_full(al.o) THEN @ + 1 ELSE @],
            ret |-> al.ret])

\* block_manager_s_alloc creating a pool already when at most one pool has
\* a free block
block_manager_s_alloc_spare_pool(m, c, a) ==
  Let(IF m.data[c].free_index + 1 >= Len(m.data[c].data)
        THEN block_manager_s_alloc_create(m, c, a) ELSE m,
      LAMBDA mg :
        IF mg.err # "none" THEN [m |-> mg, ret |-> NULL]
        ELSE block_manager_s_alloc_take(mg, c))

\* block_manager_s_alloc of class c (position in m.data), the platform
\* returning a if a pool is created.  Result: the new state and the pointer.
block_manager_s_alloc(m, c, a) ==
  Let(IF m.data[c].free_index = Len(m.data[c].data)
        THEN block_manager_s_alloc_create(m, c, a) ELSE m,
      LAMBDA mg :
        IF mg.err # "none" THEN [m |-> mg, ret |-> NULL]
        ELSE block_manager_s_alloc_take(mg, c))

\* block_manager_s_full_to_free swapping the two entries of data and leaving
\* the parent_index of both token managers as it was
block_manager_s_full_to_free_stale_index(m, c, child) ==
  LET o == m.data[c]
      free_index == o.free_index - 1
      child_index == m.tm[child].parent_index
      swapc_index == free_index
      swapc == o.data[swapc_index + 1]
  IN [m EXCEPT !.data[c].free_index = free_index,
               !.data[c].data = [[@ EXCEPT ![swapc_index + 1] = child]
                                    EXCEPT ![child_index + 1] = swapc]]

\* block_manager_s_full_to_free moving the border without the swap
block_manager_s_full_to_free_no_swap(m, c, child) ==
  [m EXCEPT !.data[c].free_index = @ - 1]

\* A child reports turning full --> free
block_manager_s_full_to_free(m, c, child) ==
  LET o == m.data[c]
      free_index == o.free_index - 1
      child_index == m.tm[child].parent_index
      swapc_index == free_index
      swapc == o.data[swapc_index + 1]
  IN [m EXCEPT !.data[c].free_index = free_index,
               !.data[c].data = [[@ EXCEPT ![swapc_index + 1] = child]
                                    EXCEPT ![child_index + 1] = swapc],
               !.tm = [[@ EXCEPT ![child].parent_index = swapc_index]
                          EXCEPT ![swapc].parent_index = child_index]]

block_manager_s_empty_tail(m, c) ==
  LET o == m.data[c]
      size == Len(o.data)
      \* positions e..size-1 all hold empty token managers
      tails == {e \in 0..size :
                  \A k \in e..(size - 1) :
                     token_manager_s_is_empty(m.tm[o.data[k + 1]])}
      empty_index == CHOOSE e \in tails : \A f \in tails : e <= f
  IN IF size = 0 THEN 0 ELSE size - empty_index

\* the sweep discarding the trailing empty token managers without removing
\* them from internal_btree
RECURSIVE block_manager_s_sweep_keep_key(_, _)
block_manager_s_sweep_keep_key(m, c) ==
  LET o == m.data[c]
      size == Len(o.data)
      gone == o.data[size]
  IN IF m.err = "none" /\ size > 0
          /\ token_manager_s_is_empty(m.tm[o.data[size]])
       THEN Let(token_manager_s_discard(
                  [m EXCEPT !.data[c].data = SubSeq(@, 1, size - 1)], gone),
                LAMBDA m1 : block_manager_s_sweep_keep_key(m1, c))
       ELSE m

\* the sweep dropping one trailing empty token manager only
block_manager_s_sweep_once(m, c) ==
  LET o == m.data[c]
      size == Len(o.data)
      gone == o.data[size]
  IN IF m.err = "none" /\ size > 0
          /\ token_manager_s_is_empty(m.tm[o.data[size]])
       THEN IF gone \notin m.internal_btree
              THEN Fail([m EXCEPT !.data[c].data = SubSeq(@, 1, size - 1)],
                        "Failed removing block address.")
              ELSE token_manager_s_discard(
                     [m EXCEPT !.data[c].data = SubSeq(@, 1, size - 1),
                               !.internal_btree = @ \ {gone}], gone)
       ELSE m

\* the sweep loop of block_manager_s_free_to_empty: drop trailing empty
\* token managers
RECURSIVE block_manager_s_sweep(_, _)
block_manager_s_sweep(m, c) ==
  LET o == m.data[c]
      size == Len(o.data)
      gone == o.data[size]
  IN IF m.err = "none" /\ size > 0
          /\ token_manager_s_is_empty(m.tm[o.data[size]])
       THEN IF gone \notin m.internal_btree
              THEN Fail([m EXCEPT !.data[c].data = SubSeq(@, 1, size - 1)],
                        "Failed removing block address.")
              ELSE Let(token_manager_s_discard(
                         [m EXCEPT !.data[c].data = SubSeq(@, 1, size - 1),
                                   !.internal_btree = @ \ {gone}], gone),
                       LAMBDA m1 : block_manager_s_sweep(m1, c))
       ELSE m

\* block_manager_s_free_to_empty sweeping already when the empty pools reach
\* sweep_hysteresis times the others
block_manager_s_free_to_empty_eager(m, c, child) ==
  LET o == m.data[c]
      size == Len(o.data)
      child_index == m.tm[child].parent_index
  IN Let(block_manager_s_empty_tail(m, c),
         LAMBDA empty_tail0 :
           LET swapc_index == size - empty_tail0 - 1
               swap == empty_tail0 < size /\ child_index < swapc_index
               swapc == o.data[swapc_index + 1]
               empty_tail == IF swap THEN empty_tail0 + 1 ELSE empty_tail0
           IN Let(IF swap
                    THEN [m EXCEPT
                            !.data[c].data =
                               [[@ EXCEPT ![child_index + 1] = swapc]
                                   EXCEPT ![swapc_index + 1] = child],
                            !.tm = [[@ EXCEPT ![child].parent_index = swapc_index]
                                       EXCEPT ![swapc].parent_index = child_index]]
                    ELSE m,
                  LAMBDA m1 :
                    IF empty_tail * sweep_hysteresis_inv >= size - empty_tail
                      THEN block_manager_s_sweep(m1, c)
                      ELSE m1))

\* A child reports turning free --> empty
block_manager_s_free_to_empty(m, c, child) ==
  LET o == m.data[c]
      size == Len(o.data)
      child_index == m.tm[child].parent_index
  IN Let(block_manager_s_empty_tail(m, c),
         LAMBDA empty_tail0 :
           LET swapc_index == size - empty_tail0 - 1
               swap == empty_tail0 < size /\ child_index < swapc_index
               swapc == o.data[swapc_index + 1]
               empty_tail == IF swap THEN empty_tail0 + 1 ELSE empty_tail0
           IN Let(IF swap
                    THEN [m EXCEPT
                            !.data[c].data =
                               [[@ EXCEPT ![child_index + 1] = swapc]
                                   EXCEPT ![swapc_index + 1] = child],
                            !.tm = [[@ EXCEPT ![child].parent_index = swapc_index]
                                       EXCEPT ![swapc].parent_index = child_index]]
                    ELSE m,
                  LAMBDA m1 :
                    \* empty_tail > (size - empty_tail) * sweep_hysteresis
                    IF empty_tail * sweep_hysteresis_inv > size - empty_tail
                      THEN block_manager_s_sweep(m1, c)
                      ELSE m1))

\* token_manager_s_free storing the token before stack_index is decremented
token_manager_s_free_store_first(m, base, ptr) ==
  LET o == m.tm[base]
      token == ((ptr - base) \div o.block_size) % UINT16
      idx == (o.stack_index - 1) % UINT16
  IN Let(IF o.token_stack[o.stack_index] = 0
           THEN block_manager_s_full_to_free(m, o.parent, base)
           ELSE m,
         LAMBDA m1 :
           Let([m1 EXCEPT !.tm[base].token_stack[o.stack_index] = token,
                          !.tm[base].stack_index = idx],
               LAMBDA m2 :
                 IF idx = 0 THEN block_manager_s_free_to_empty(m2, o.parent, base)
                 ELSE m2))

\* token_manager_s_free of ptr in the pool at base
token_manager_s_free(m, base, ptr) ==
  LET o == m.tm[base]
      token == ((ptr - base) \div o.block_size) % UINT16
      idx == (o.stack_index - 1) % UINT16
  IN Let(IF o.token_stack[o.stack_index] = 0
           THEN block_manager_s_full_to_free(m, o.parent, base)
           ELSE m,
         LAMBDA m1 :
           Let([m1 EXCEPT !.tm[base].stack_index = idx,
                          !.tm[base].token_stack[idx] = token],
               LAMBDA m2 :
                 IF idx = 0 THEN block_manager_s_free_to_empty(m2, o.parent, base)
                 ELSE m2))

block_manager_s_total_alloc(m, c) ==
  SumSeq([k \in 1..Len(m.data[c].data) |->
            token_manager_s_total_alloc(m.tm[m.data[c].data[k]])])

block_manager_s_total_instances(m, c) ==
  SumSeq([k \in 1..Len(m.data[c].data) |->
            token_manager_s_total_instances(m.tm[m.data[c].data[k]])])

block_manager_s_for_each_instance(m, c) ==
  Concat([k \in 1..Len(m.data[c].data) |->
            token_manager_s_for_each_instance(m.tm[m.data[c].data[k]],
                                              m.data[c].data[k])])

\* ---------------------------------------------------------- Memory-Manager
\* the mask-search loop of tbman_s_init
RECURSIVE tbman_s_init_size_mask(_, _)
tbman_s_init_size_mask(size_mask, min_block_size) ==
  IF size_mask < min_block_size \/ BitAnd(size_mask * 2, min_block_size) # 0
    THEN tbman_s_init_size_mask(size_mask * 2, min_block_size)
    ELSE size_mask

\* the class-emission loop of tbman_s_init: the block sizes, in order
RECURSIVE tbman_s_init_ladder(_, _, _, _)
tbman_s_init_ladder(block_size, size_mask, size_inc, max_block_size) ==
  IF block_size <= max_block_size
    THEN <<block_size>> \o
         (IF block_size > size_mask
            THEN tbman_s_init_ladder(block_size + size_inc * 2, size_mask * 2,
                                     size_inc * 2, max_block_size)
            ELSE tbman_s_init_ladder(block_size + size_inc, size_mask,
                                     size_inc, max_block_size))
    ELSE <<>>

\* tbman_s_init: the Manager after construction (no pool exists yet)
tbman_s_init(c) ==
  LET size_mask == tbman_s_init_size_mask(Pow2(c.stepping_method) - 1,
                                          c.min_block_size)
      sizes == tbman_s_init_ladder(c.min_block_size, size_mask,
                                   c.min_block_size, c.max_block_size)
  IN [cfg |-> c,
      data |-> [i \in 1..Len(sizes) |->
                  block_manager_s_create(c.pool_size, sizes[i], c.full_align)],
      tm |-> <<>>,
      internal_btree |-> {},
      external_btree |-> <<>>,
      aligned |-> TRUE,
      heap |-> <<>>,
      err |-> "none",
      preq |-> <<>>]

\* tbman_s.block_size_array: copy of the block sizes of the classes
block_size_array(m) == [i \in 1..Len(m.data) |-> m.data[i].block_size]

\* the linear scan comparing with < instead of <=
scan_block_size_array_strict(m, requested_size) ==
  LET fits == {i \in 1..Len(m.data) : requested_size < block_size_array(m)[i]}
  IN IF fits = {} THEN 0
     ELSE CHOOSE i \in fits : \A j \in fits : i <= j

\* the class the linear scan of block_size_array stops at (0: none fits)
scan_block_size_array(m, requested_size) ==
  LET fits == {i \in 1..Len(m.data) : requested_size <= block_size_array(m)[i]}
  IN IF fits = {} THEN 0
     ELSE CHOOSE i \in fits : \A j \in fits : i <= j

\* the platform path shared by tbman_s_mem_alloc and tbman_s_mem_realloc:
\* _aligned_malloc(TBMAN_ALIGN, requested_size) returning a, registered in
\* external_btree
external_alloc(m, requested_size, a) ==
  LET preq == <<TBMAN_ALIGN, requested_size>>
  IN IF a = NULL
       THEN [m |-> [m EXCEPT !.preq = preq, !.err = "Failed allocating"],
             ret |-> NULL, granted |-> 0]
     ELSE IF a \in DOMAIN m.external_btree
       THEN [m |-> [m EXCEPT !.preq = preq,
                             !.heap = Put(@, a, requested_size),
                             !.err = "Registering new address failed"],
             ret |-> NULL, granted |-> requested_size]
     ELSE [m |-> [m EXCEPT !.preq = preq,
                           !.heap = Put(@, a, requested_size),
                           !.external_btree = Put(@, a, requested_size)],
           ret |-> a, granted |-> requested_size]

tbman_s_mem_alloc(m, requested_size, a) ==
  Let(scan_block_size_array(m, requested_size),
      LAMBDA c :
        IF c # 0
          THEN Let(block_manager_s_alloc(m, c, a),
                   LAMBDA r : [m |-> r.m, ret |-> r.ret,
                               granted |-> m.data[c].block_size])
          ELSE external_alloc(m, requested_size, a))

\* the owner of current_ptr as tbman_s_mem_free and tbman_s_mem_realloc
\* determine it: current_size is <<>> for a null size pointer, <<s>> else.
\* Result: the header address (NULL: not internal) and whether the bit mask
\* was used.
find_token_manager_le(m, current_ptr, current_size) ==
  IF current_size # <<>> /\ current_size[1] <= m.cfg.max_block_size /\ m.aligned
    THEN [o |-> current_ptr - (current_ptr % m.cfg.pool_size), fast |-> TRUE]
    ELSE Let(btree_vd_s_largest_below_equal(m.internal_btree, current_ptr),
             LAMBDA block_ptr :
               [o |-> IF block_ptr # NULL
                         /\ current_ptr - block_ptr <= m.cfg.pool_size
                        THEN block_ptr ELSE NULL,
                fast |-> FALSE])

\* the token manager that owns current_ptr, found as the source does
find_token_manager(m, current_ptr, current_size) ==
  IF current_size # <<>> /\ current_size[1] <= m.cfg.max_block_size /\ m.aligned
    THEN [o |-> current_ptr - (current_ptr % m.cfg.pool_size), fast |-> TRUE]
    ELSE Let(btree_vd_s_largest_below_equal(m.internal_btree, current_ptr),
             LAMBDA block_ptr :
               [o |-> IF block_ptr # NULL
                         /\ current_ptr - block_ptr < m.cfg.pool_size
                        THEN block_ptr ELSE NULL,
                fast |-> FALSE])

\* external_free releasing the memory and leaving the entry in external_btree
external_free_keep_entry(m, current_ptr) ==
  IF current_ptr \notin DOMAIN m.external_btree
    THEN Fail(m, "Attempt to free invalid memory")
    ELSE [m EXCEPT !.heap = Drop(@, current_ptr)]

\* removal from external_btree followed by free(current_ptr)
external_free(m, current_ptr) ==
  IF current_ptr \notin DOMAIN m.external_btree
    THEN Fail(m, "Attempt to free invalid memory")
    ELSE [m EXCEPT !.external_btree = Drop(@, current_ptr),
                   !.heap = Drop(@, current_ptr)]

tbman_s_mem_free(m, current_ptr, current_size) ==
  Let(find_token_manager(m, current_ptr, current_size),
      LAMBDA f :
        IF f.fast \/ f.o # NULL
          THEN IF f.o \in DOMAIN m.tm
                 THEN token_manager_s_free(m, f.o, current_ptr)
                 ELSE Fail(m, "undefined: masked address is no token manager")
          ELSE external_free(m, current_ptr))

\* realloc_internal taking the growth branch for requested_size >= block_size
realloc_internal_grow_on_equal(m, token_manager, current_ptr, requested_size, a) ==
  LET block_size == m.tm[token_manager].block_size
  IN IF requested_size >= block_size
       THEN Let(tbman_s_mem_alloc(m, requested_size, a),
                LAMBDA r :
                  IF r.m.err # "none" THEN r
                  ELSE [m |-> token_manager_s_free(r.m, token_manager,
                                                   current_ptr),
                        ret |-> r.ret, granted |-> r.granted])
       ELSE Let(scan_block_size_array(m, requested_size),
                LAMBDA c :
                  IF m.data[c].block_size # block_size
                    THEN Let(block_manager_s_alloc(m, c, a),
                             LAMBDA r :
                               IF r.m.err # "none"
                                 THEN [m |-> r.m, ret |-> NULL, granted |-> 0]
                                 ELSE [m |-> token_manager_s_free(
                                               r.m, token_manager, current_ptr),
                                       ret |-> r.ret,
                                       granted |-> m.data[c].block_size])
                    ELSE [m |-> m, ret |-> current_ptr, granted |-> block_size])

\* tbman_s_mem_realloc, the owner being the token manager at token_manager
realloc_internal(m, token_manager, current_ptr, requested_size, a) ==
  LET block_size == m.tm[token_manager].block_size
  IN IF requested_size > block_size
       THEN Let(tbman_s_mem_alloc(m, requested_size, a),
                LAMBDA r :
                  IF r.m.err # "none" THEN r
                  ELSE [m |-> token_manager_s_free(r.m, token_manager,
                                                   current_ptr),
                        ret |-> r.ret, granted |-> r.granted])
       ELSE \* size reduction
            Let(scan_block_size_array(m, requested_size),
                LAMBDA c :
                  IF m.data[c].block_size # block_size
                    THEN Let(block_manager_s_alloc(m, c, a),
                             LAMBDA r :
                               IF r.m.err # "none"
                                 THEN [m |-> r.m, ret |-> NULL, granted |-> 0]
                                 ELSE [m |-> token_manager_s_free(
                                               r.m, token_manager, current_ptr),
                                       ret |-> r.ret,
                                       granted |-> m.data[c].block_size])
                    ELSE \* same block-size: keep current location
                         [m |-> m, ret |-> current_ptr, granted |-> block_size])

\* realloc_external keeping the block only for requested_size strictly above
\* half of the current size
realloc_external_strict_half(m, current_ptr, requested_size, a) ==
  IF requested_size <= m.cfg.max_block_size
    THEN Let(tbman_s_mem_alloc(m, requested_size, a),
             LAMBDA r :
               IF r.m.err # "none" THEN r
               ELSE [m |-> external_free(r.m, current_ptr),
                     ret |-> r.ret, granted |-> r.granted])
    ELSE IF current_ptr \notin DOMAIN m.external_btree
           THEN [m |-> Fail(m, "Could not retrieve current external memory"),
                 ret |-> NULL, granted |-> 0]
           ELSE LET current_ext_bytes == m.external_btree[current_ptr]
                IN IF requested_size < current_ext_bytes
                        /\ requested_size > current_ext_bytes \div 2
                     THEN [m |-> m, ret |-> current_ptr,
                           granted |-> current_ext_bytes]
                     ELSE Let(external_alloc(m, requested_size, a),
                              LAMBDA r :
                                IF r.m.err # "none" THEN r
                                ELSE [m |-> external_free(r.m, current_ptr),
                                      ret |-> r.ret, granted |-> r.granted])

\* tbman_s_mem_realloc, no token manager owning current_ptr
realloc_external(m, current_ptr, requested_size, a) ==
  IF requested_size <= m.cfg.max_block_size
    THEN \* new size fits into manager, old size was outside manager
         Let(tbman_s_mem_alloc(m, requested_size, a),
             LAMBDA r :
               IF r.m.err # "none" THEN r
               ELSE [m |-> external_free(r.m, current_ptr),
                     ret |-> r.ret, granted |-> r.granted])
    ELSE \* neither old nor new size handled by this manager
         IF current_ptr \notin DOMAIN m.external_btree
           THEN [m |-> Fail(m, "Could not retrieve current external memory"),
                 ret |-> NULL, granted |-> 0]
           ELSE LET current_ext_bytes == m.external_btree[current_ptr]
                IN IF requested_size < current_ext_bytes
                        /\ requested_size >= current_ext_bytes \div 2
                     THEN [m |-> m, ret |-> current_ptr,
                           granted |-> current_ext_bytes]
                     ELSE Let(external_alloc(m, requested_size, a),
                              LAMBDA r :
                                IF r.m.err # "none" THEN r
                                ELSE [m |-> external_free(r.m, current_ptr),
                                      ret |-> r.ret, granted |-> r.granted])

tbman_s_mem_realloc(m, current_ptr, current_size, requested_size, a) ==
  Let(find_token_manager(m, current_ptr, current_size),
      LAMBDA f :
        IF f.o # NULL /\ f.o \notin DOMAIN m.tm
          THEN [m |-> Fail(m, "undefined: masked address is no token manager"),
                ret |-> NULL, granted |-> 0]
        ELSE IF f.o # NULL
          THEN realloc_internal(m, f.o, current_ptr, requested_size, a)
        ELSE realloc_external(m, current_ptr, requested_size, a))

\* tbman_s_alloc not freeing current_ptr on a request of size 0
tbman_s_alloc_no_free(m, current_ptr, requested_size, a) ==
  IF requested_size = 0
    THEN [m |-> m, ret |-> NULL, granted |-> 0]
  ELSE IF current_ptr # NULL
    THEN tbman_s_mem_realloc(m, current_ptr, <<>>, requested_size, a)
  ELSE tbman_s_mem_alloc(m, requested_size, a)

\* tbman_s_alloc(o, current_ptr, requested_size, &granted_size)
tbman_s_alloc(m, current_ptr, requested_size, a) ==
  IF requested_size = 0
    THEN [m |-> IF current_ptr # NULL
                  THEN tbman_s_mem_free(m, current_ptr, <<>>) ELSE m,
          ret |-> NULL, granted |-> 0]
  ELSE IF current_ptr # NULL
    THEN tbman_s_mem_realloc(m, current_ptr, <<>>, requested_size, a)
  ELSE tbman_s_mem_alloc(m, requested_size, a)

\* tbman_s_nalloc(o, current_ptr, current_size, requested_size, &granted_size)
tbman_s_nalloc(m, current_ptr, current_size, requested_size, a) ==
  IF requested_size = 0
    THEN [m |-> IF current_size # 0
                  THEN tbman_s_mem_free(m, current_ptr, <<current_size>>) ELSE m,
          ret |-> NULL, granted |-> 0]
  ELSE IF current_size # 0
    THEN tbman_s_mem_realloc(m, current_ptr, <<current_size>>, requested_size, a)
  ELSE tbman_s_mem_alloc(m, requested_size, a)

tbman_s_external_total_alloc(m) == SumFun(m.external_btree)

tbman_s_external_total_instances(m) == Cardinality(DOMAIN m.external_btree)

tbman_s_external_for_each_instance(m) ==
  LET keys == SortedKeys(DOMAIN m.external_btree)
  IN [i \in 1..Len(keys) |-> <<keys[i], m.external_btree[keys[i]]>>]

tbman_s_internal_total_alloc(m) ==
  SumSeq([c \in 1..Len(m.data) |-> block_manager_s_total_alloc(m, c)])

tbman_s_internal_total_instances(m) ==
  SumSeq([c \in 1..Len(m.data) |-> block_manager_s_total_instances(m, c)])

tbman_s_internal_for_each_instance(m) ==
  Concat([c \in 1..Len(m.data) |-> block_manager_s_for_each_instance(m, c)])

tbman_s_total_granted_space(m) ==
  tbman_s_external_total_alloc(m) + tbman_s_internal_total_alloc(m)

tbman_s_total_instances(m) ==
  tbman_s_external_total_instances(m) + tbman_s_internal_total_instances(m)

\* tbman_s_granted_space taking the pool below current_ptr without the
\* distance test against pool_size
tbman_s_granted_space_no_range(m, current_ptr) ==
  LET block_ptr == btree_vd_s_largest_below_equal(m.internal_btree, current_ptr)
  IN IF block_ptr # NULL THEN m.tm[block_ptr].block_size
     ELSE IF current_ptr \notin DOMAIN m.external_btree THEN 0
     ELSE m.external_btree[current_ptr]

\* tbman_s_granted_space(o, current_ptr)
tbman_s_granted_space(m, current_ptr) ==
  LET f == find_token_manager(m, current_ptr, <<>>)
  IN IF f.o # NULL THEN m.tm[f.o].block_size
     ELSE IF current_ptr \notin DOMAIN m.external_btree THEN 0
     ELSE m.external_btree[current_ptr]

\* the (pointer, size) pairs a single-threaded tbman_s_for_each_instance
\* passes to the callback, in order: the first `size` collected entries
tbman_s_for_each_instance(m) ==
  LET size == tbman_s_total_instances(m)
      arr == tbman_s_external_for_each_instance(m)
               \o tbman_s_internal_for_each_instance(m)
  IN IF size = 0 THEN <<>> ELSE SubSeq(arr, 1, size)

\* ------------------------------------------------------- the state machine
\* the Manager as one record
M ==
  [cfg |-> cfg, data |-> data, tm |-> tm, internal_btree |-> internal_btree,
   external_btree |-> external_btree, aligned |-> aligned, heap |-> heap,
   err |-> err, preq |-> <<>>]

\* the client holds no unconsumed result
Idle ==
  [op |-> "idle", cur |-> NULL, cur_size |-> 0, req |-> 0, ret |-> NULL,
   granted |-> 0, pre |-> <<>>, pre_live |-> <<>>]

Init ==
  /\ cfg \in Configs
  /\ LET m == tbman_s_init(cfg)
     IN /\ data = m.data
        /\ tm = m.tm
        /\ internal_btree = m.internal_btree
        /\ external_btree = m.external_btree
        /\ aligned = m.aligned
        /\ heap = m.heap
        /\ err = m.err
  /\ live = <<>>
  /\ last = Idle
  /\ mutex = NULL
  /\ th = <<>>

\* the addresses the platform may return for the request preq = <<align,
\* size>> of a call (<<>>: the call asks the platform for nothing): NULL only
\* when nothing fits, else the lowest or the highest address that fits
PlatformChoices(preq) ==
  IF preq = <<>> THEN {NULL}
  ELSE Let(PlatformFits(heap, preq[1], preq[2]),
           LAMBDA fits :
             IF fits = {} THEN {NULL}
             ELSE {a \in fits :
                     (\A b \in fits : a <= b) \/ (\A b \in fits : a >= b)})

\* the state after a public call with result r made in state m, and the
\* client's record of it
Commit(m, r, op, cur, cur_size, req) ==
  /\ cfg' = cfg
  /\ data' = r.m.data
  /\ tm' = r.m.tm
  /\ internal_btree' = r.m.internal_btree
  /\ external_btree' = r.m.external_btree
  /\ aligned' = r.m.aligned
  /\ heap' = r.m.heap
  /\ err' = r.m.err
  /\ live' = IF r.m.err # "none" THEN live
             ELSE IF req = 0 THEN Drop(live, cur)
             ELSE Put(Drop(live, cur), r.ret, r.granted)
  /\ last' = [op |-> op, cur |-> cur, cur_size |-> cur_size, req |-> req,
              ret |-> r.ret, granted |-> r.granted, pre |-> m,
              pre_live |-> live]
  /\ UNCHANGED <<mutex, th>>

\* a client calls tbman_s_alloc: malloc (cur = NULL), realloc or free of a
\* block it holds.  The call is first evaluated with a failing platform,
\* which shows the request it makes of the platform.
Alloc ==
  /\ err = "none"
  /\ last.op = "idle"
  /\ \E m \in {M}, cur \in {NULL} \cup DOMAIN live, req \in {0} \cup ReqSizes :
       /\ (cur = NULL /\ req > 0) => Cardinality(DOMAIN live) < MaxLive
       /\ \E dry \in {tbman_s_alloc(m, cur, req, NULL)} :
            \E a \in PlatformChoices(dry.m.preq) :
              \E r \in {tbman_s_alloc(m, cur, req, a)} :
                 Commit(m, r, "alloc", cur, 0, req)

\* a client calls tbman_s_nalloc with the granted size of the block it
\* holds as current_size, or with current_size = 0 for a new block
NAlloc ==
  /\ err = "none"
  /\ last.op = "idle"
  /\ \E m \in {M}, cur \in {NULL} \cup DOMAIN live, req \in {0} \cup ReqSizes :
       /\ (cur = NULL /\ req > 0) => Cardinality(DOMAIN live) < MaxLive
       /\ \E cur_size \in {IF cur = NULL THEN 0 ELSE live[cur]} :
            \E dry \in {tbman_s_nalloc(m, cur, cur_size, req, NULL)} :
              \E a \in PlatformChoices(dry.m.preq) :
                \E r \in {tbman_s_nalloc(m, cur, cur_size, req, a)} :
                   Commit(m, r, "nalloc", cur, cur_size, req)

\* the client takes the result of the call: its record of the call is dropped
Return ==
  /\ err = "none"
  /\ last.op # "idle"
  /\ last' = Idle
  /\ UNCHANGED <<cfg, data, tm, internal_btree, external_btree, aligned, heap,
                 err, live, mutex, th>>

Next == Alloc \/ NAlloc \/ Return

Spec == Init /\ [][Next]_vars

\* ------------------------------------------------------------ vocabulary
\* a public call has just returned (the process did not abort in it)
Called == last.op # "idle" /\ err = "none"

\* the call that has just returned was a new allocation / a realloc / a free
NewAlloc == Called /\ last.cur = NULL /\ last.req > 0
Realloc == Called /\ last.cur # NULL /\ last.req > 0
Free == Called /\ last.cur # NULL /\ last.req = 0

\* the pools of m that contain address p
OwnerPools(m, p) ==
  {base \in DOMAIN m.tm : base <= p /\ p < base + m.tm[base].pool_size}

\* the tokens on the free part of a token stack: from stack_index up to the
\* sentinel
FreeTokens(o) ==
  {o.token_stack[i] :
     i \in o.stack_index ..
           (o.stack_size - reserved_blocks(o.pool_size, o.block_size) - 1)}

\* the block addresses of a pool that are not free
AllocatedIn(o, base) ==
  {base + t * o.block_size :
     t \in (reserved_blocks(o.pool_size, o.block_size) .. (o.stack_size - 1))
             \ FreeTokens(o)}

\* every block of m that is allocated: internal blocks not on a free list and
\* external blocks on record
Allocated(m) ==
  UNION {AllocatedIn(m.tm[base], base) : base \in DOMAIN m.tm}
    \cup DOMAIN m.external_btree

\* p is an allocated block of a pool that the block manager of block size B
\* holds, and is not on record as external
ServedByClass(m, p, B) ==
  /\ p \notin DOMAIN m.external_btree
  /\ \E c \in 1..Len(m.data) :
       /\ m.data[c].block_size = B
       /\ \E k \in 1..Len(m.data[c].data) :
            LET base == m.data[c].data[k]
            IN /\ m.tm[base].block_size = B
               /\ p \in AllocatedIn(m.tm[base], base)

\* p is an external block: obtained from the platform and on record with size n
ServedExternally(m, p, n) ==
  /\ p \in DOMAIN m.external_btree
  /\ m.external_btree[p] = n
  /\ p \in DOMAIN m.heap
  /\ OwnerPools(m, p) = {}

\* the smallest block size that is at least n (0: there is none)
SmallestFit(m, n) ==
  LET fit == {B \in {m.data[c].block_size : c \in 1..Len(m.data)} : B >= n}
  IN IF fit = {} THEN 0 ELSE CHOOSE B \in fit : \A C \in fit : B <= C

\* the new-allocation rule for a block p of n bytes reported with size g
NewAllocationRule(m, p, n, g) ==
  IF SmallestFit(m, n) # 0
    THEN ServedByClass(m, p, SmallestFit(m, n)) /\ g = SmallestFit(m, n)
    ELSE ServedExternally(m, p, n) /\ g = n

\* the Manager state without the transient record of the platform request
Persistent(m) == [m EXCEPT !.preq = <<>>]

\* the blocks the Manager holds as allocated are the blocks the clients hold
LiveIsAllocated == err = "none" => Allocated(M) = DOMAIN live

\* ------------------------------------------------------------------ C1
\* C1: the pointer a new allocation or a relocating realloc returns is not
\* NULL and equals no pointer that was live when the call was made
C1_NoDoubleAllocation ==
  (Called /\ last.req > 0 /\ last.ret # last.cur)
    => (last.ret # NULL /\ last.ret \notin DOMAIN last.pre_live)

\* a new allocation reuses the first block of a pool, freed before, while
\* another block of the pool is live
C1_Witness ==
  /\ NewAlloc
  /\ \E base \in OwnerPools(M, last.ret) :
       /\ tm[base].stack_index = 2
       /\ last.ret = base + reserved_blocks(tm[base].pool_size,
                                            tm[base].block_size)
                              * tm[base].block_size
       /\ \E q \in DOMAIN last.pre_live : q \in AllocatedIn(tm[base], base)

\* ------------------------------------------------------------------ C2
\* C2: a new allocation of n >= 1 bytes is served by the class of the
\* smallest block size B >= n with granted size B if there is one, else by
\* the platform, on record in external_btree with size n, granted size n
C2_NewAllocationRouting ==
  NewAlloc => NewAllocationRule(M, last.ret, last.req, last.granted)

\* a request of max_block_size + 1 bytes went to the platform while a block
\* of the last class is live
C2_Witness ==
  /\ NewAlloc
  /\ last.req = cfg.max_block_size + 1
  /\ ServedExternally(M, last.ret, last.req)
  /\ \E q \in DOMAIN last.pre_live :
       ServedByClass(M, q, cfg.max_block_size)

\* ------------------------------------------------------------------ C3
\* the realloc that has just returned was given a block of a pool
ReallocInternal == Realloc /\ OwnerPools(last.pre, last.cur) # {}

\* the block size of the pool that owned the block given to it
B0 ==
  last.pre.tm[CHOOSE base \in OwnerPools(last.pre, last.cur) : TRUE].block_size

\* C3: realloc of an internal block of class B0 to n bytes: for n > B0 the
\* result follows the new-allocation rule and the old block is freed; for
\* n <= B0 with smallest fit B0 the same pointer comes back with granted
\* size B0 and nothing is freed; with a smaller fit B1 a block of class B1
\* comes back with granted size B1 and the old block is freed
C3_ReallocInternal ==
  ReallocInternal =>
    LET n == last.req
        B1 == SmallestFit(last.pre, n)
    IN IF n > B0
         THEN /\ NewAllocationRule(M, last.ret, n, last.granted)
              /\ last.cur \notin Allocated(M)
       ELSE IF B1 = B0
         THEN /\ last.ret = last.cur
              /\ last.granted = B0
              /\ Allocated(M) = Allocated(last.pre)
       ELSE /\ B1 < B0
            /\ ServedByClass(M, last.ret, B1)
            /\ last.granted = B1
            /\ last.cur \notin Allocated(M)

\* a block of a larger class was moved to a smaller class
C3_Witness ==
  /\ ReallocInternal
  /\ SmallestFit(last.pre, last.req) < B0
  /\ last.ret # last.cur
  /\ last.granted < B0

\* ------------------------------------------------------------------ C4
\* the realloc that has just returned was given an external block
ReallocExternal == Realloc /\ last.cur \in DOMAIN last.pre.external_btree

\* C4: realloc of an external block of recorded size ext0 to n bytes (ext0/2
\* is the integer half): for n <= max_block_size the result is an internal
\* block with its class size granted and the old entry is gone; else for
\* ext0/2 <= n < ext0 the same pointer comes back with granted size ext0 and
\* external_btree is unchanged; else a new external block is on record with
\* size n, granted n, and the old entry is gone
C4_ReallocExternal ==
  ReallocExternal =>
    LET n == last.req
        ext0 == last.pre.external_btree[last.cur]
    IN IF n <= cfg.max_block_size
         THEN /\ \E c \in 1..Len(data) :
                   /\ ServedByClass(M, last.ret, data[c].block_size)
                   /\ last.granted = data[c].block_size
              /\ last.cur \notin DOMAIN external_btree
       ELSE IF n < ext0 /\ n >= ext0 \div 2
         THEN /\ last.ret = last.cur
              /\ last.granted = ext0
              /\ external_btree = last.pre.external_btree
       ELSE /\ last.ret # last.cur
            /\ ServedExternally(M, last.ret, n)
            /\ last.granted = n
            /\ last.cur \notin DOMAIN external_btree

\* an external block of odd size was kept in place for a request of exactly
\* the integer half of its size
C4_Witness ==
  /\ ReallocExternal
  /\ last.ret = last.cur
  /\ last.req = last.pre.external_btree[last.cur] \div 2
  /\ 2 * last.req < last.granted

\* ------------------------------------------------------------------ C5
\* the results alloc(p, n) can give when called in the current state
AllocResults(p, n) ==
  {tbman_s_alloc(M, p, n, a) :
     a \in PlatformChoices(tbman_s_alloc(M, p, n, NULL).m.preq)}

\* C5: after p = alloc(null, n, &g) with n >= 1, internal or oversize, the
\* call alloc(p, n, &g') returns p with g' = g
C5_NoOpRealloc ==
  (NewAlloc /\ last.op = "alloc") =>
    \A r \in AllocResults(last.ret, last.req) :
      r.m.err = "none" => (r.ret = last.ret /\ r.granted = last.granted)

\* ------------------------------------------------------------------ C6
\* the manager after alloc(last.ret, 0) is called in the current state
AfterFree == tbman_s_alloc(M, last.ret, 0, NULL).m

\* C6: p = alloc(null, n, &g) followed at once by alloc(p, 0) leaves
\* total_granted_space and total_instances at their values before the pair
C6_AllocFreeRoundTrip ==
  (NewAlloc /\ last.op = "alloc") =>
    /\ AfterFree.err = "none"
    /\ tbman_s_total_granted_space(AfterFree)
         = tbman_s_total_granted_space(last.pre)
    /\ tbman_s_total_instances(AfterFree) = tbman_s_total_instances(last.pre)

\* the pair created a pool, or an external block, next to live blocks and
\* took it away again
C6_Witness ==
  /\ NewAlloc /\ last.op = "alloc"
  /\ last.pre_live # <<>>
  /\ tbman_s_total_granted_space(last.pre) > 0
  /\ \/ DOMAIN tm # DOMAIN last.pre.tm
     \/ DOMAIN external_btree # DOMAIN last.pre.external_btree
  /\ DOMAIN AfterFree.tm = DOMAIN last.pre.tm
  /\ AfterFree.external_btree = last.pre.external_btree
  /\ tbman_s_total_instances(AfterFree) = Cardinality(DOMAIN last.pre_live)

\* ------------------------------------------------------------------ C7
\* C7: alloc(cur_ptr, 0, &g) returns NULL with g = 0; a live cur_ptr is no
\* longer allocated afterwards; with cur_ptr = NULL the pools, the
\* free_index values and both trees are unchanged
C7_ZeroSizeRequest ==
  (Called /\ last.op = "alloc" /\ last.req = 0) =>
    /\ last.ret = NULL
    /\ last.granted = 0
    /\ last.cur # NULL =>
         (last.cur \notin Allocated(M) /\ last.cur \notin DOMAIN live)
    /\ last.cur = NULL =>
         /\ data = last.pre.data
         /\ tm = last.pre.tm
         /\ internal_btree = last.pre.internal_btree
         /\ external_btree = last.pre.external_btree

\* a block was freed by a request of size 0 while another block of its pool
\* stays allocated
C7_Witness ==
  /\ Called /\ last.op = "alloc" /\ last.req = 0
  /\ last.ret = NULL
  /\ \E base \in OwnerPools(last.pre, last.cur) :
       /\ base \in DOMAIN tm
       /\ tm[base].stack_index = 1
       /\ last.pre.tm[base].stack_index = 2

\* ------------------------------------------------------------------ C8
\* C8: after every call total_instances is the number of blocks returned and
\* not yet freed, and total_granted_space the sum of their granted sizes
\* (stated of the states in which the client has taken the result of its
\* call, and of the initial state)
C8_Accounting ==
  (err = "none" /\ last.op = "idle") =>
    /\ tbman_s_total_instances(M) = Cardinality(DOMAIN live)
    /\ tbman_s_total_granted_space(M) = SumFun(live)

\* a call has returned with an internal and an external block live
C8_Witness ==
  /\ last.op = "idle"
  /\ err = "none"
  /\ \E p, q \in DOMAIN live :
       /\ OwnerPools(M, p) # {}
       /\ q \in DOMAIN external_btree
  /\ tbman_s_total_instances(M) = 2
  /\ tbman_s_total_granted_space(M) > cfg.max_block_size

\* ------------------------------------------------------------------ C9
\* C9: for_each_instance passes to the callback each live block exactly once,
\* with its pointer and granted size, and no freed block; in every pool the
\* tokens at token_stack[0..stack_index) are those of the allocated blocks
C9_ForEachReportsLive ==
  err = "none" =>
    LET s == tbman_s_for_each_instance(M)
    IN /\ Len(s) = Cardinality(DOMAIN live)
       /\ {s[i] : i \in 1..Len(s)} = {<<p, live[p]>> : p \in DOMAIN live}

\* ------------------------------------------------------------------ C10
\* C10: granted_space(p) of every live pointer p is the granted size the most
\* recent call that returned p has reported
C10_GrantedSpace ==
  err = "none" =>
    \A p \in DOMAIN live : tbman_s_granted_space(M, p) = live[p]

\* an external block kept in place by a realloc to fewer bytes lies above a
\* pool and granted_space gives its recorded size
C10_Witness ==
  /\ ReallocExternal
  /\ last.ret = last.cur
  /\ last.req < last.granted
  /\ btree_vd_s_largest_below_equal(internal_btree, last.ret) # NULL
  /\ tbman_s_granted_space(M, last.ret) = last.granted

\* ------------------------------------------------------------------ C11
\* the addresses a caller may hold: every multiple of the smallest block size
\* in the address space
ProbePtrs ==
  {k * cfg.min_block_size : k \in 1..(HeapEnd \div cfg.min_block_size)}

\* C11: granted_space returns 0 for every pointer that is not a live block
\* (never issued, or issued and freed since)
C11_GrantedSpaceUnknown ==
  err = "none" =>
    \A p \in ProbePtrs \ DOMAIN live : tbman_s_granted_space(M, p) = 0

\* ------------------------------------------------------------------ C16
\* C16: for every live pointer p with granted size s and every n >= 0,
\* nalloc(p, s, n) gives the pointer, the granted size and the Manager state
\* that alloc(p, n) gives
C16_NAllocAsAlloc ==
  (err = "none" /\ last.op = "idle") =>
    \A p \in DOMAIN live : \A n \in {0} \cup ReqSizes :
      \A a \in {NULL} \cup PlatformChoices(tbman_s_alloc(M, p, n, NULL).m.preq) :
        tbman_s_nalloc(M, p, live[p], n, a) = tbman_s_alloc(M, p, n, a)

\* ------------------------------------------------------------------ C17
\* C17: between calls, for every live internal pointer the lookup without
\* size hint gives the pool that issued it, for every live external pointer
\* it gives no pool; and a free without size hint does not fail and releases
\* just that block
C17_TreeFallback ==
  /\ (err = "none" /\ last.op = "idle") =>
       \A p \in DOMAIN live :
         \E o \in {find_token_manager(M, p, <<>>).o} :
           IF p \in DOMAIN external_btree
             THEN o = NULL
             ELSE o \in DOMAIN tm /\ p \in AllocatedIn(tm[o], o)
  /\ (last.op = "alloc" /\ last.cur # NULL /\ last.req = 0) =>
       /\ err = "none"
       /\ Allocated(M) = Allocated(last.pre) \ {last.cur}

\* a block of a pool that is not aligned to pool_size was freed without size
\* hint while an external block above the pool is live
C17_Witness ==
  /\ Free /\ last.op = "alloc"
  /\ ~last.pre.aligned
  /\ \E base \in DOMAIN last.pre.tm :
       /\ base % cfg.pool_size # 0
       /\ last.cur \in AllocatedIn(last.pre.tm[base], base)
       /\ \E q \in DOMAIN live : q \in DOMAIN external_btree /\ q > base
  /\ last.cur \notin Allocated(M)

\* ------------------------------------------------------------------ C18
\* C18: every non-null pointer alloc or nalloc returns is a multiple of
\* TBMAN_ALIGN
C18_Alignment ==
  (Called /\ last.ret # NULL) => last.ret % TBMAN_ALIGN = 0

\* ------------------------------------------------------------------ C19
\* the addresses inside no pool that are no key of external_btree
InvalidPtrs == {p \in ProbePtrs : OwnerPools(M, p) = {}} \ DOMAIN external_btree

\* C19: a free of a pointer inside no pool and not in external_btree, made
\* as alloc(ptr, 0) or as nalloc(ptr, cur_size > 0, 0), ends in the fatal
\* error of an invalid free and changes nothing else
C19_InvalidFreeFatal ==
  (err = "none" /\ last.op = "idle") =>
    \A p \in InvalidPtrs :
      /\ tbman_s_alloc(M, p, 0, NULL).m
           = Fail(M, "Attempt to free invalid memory")
      /\ \A cur_size \in ReqSizes :
           tbman_s_nalloc(M, p, cur_size, 0, NULL).m
             = Fail(M, "Attempt to free invalid memory")

\* ------------------------------------------------ the size-class ladder
\* constructor arguments with 1 <= min_block_size <= max_block_size and
\* stepping_method >= 1
LadderConfigs ==
  {[pool_size |-> 512, min_block_size |-> lo, max_block_size |-> hi,
    stepping_method |-> s, full_align |-> TRUE] :
     lo \in 1..MaxLadderBlock, hi \in 1..MaxLadderBlock, s \in 1..MaxStepping}

\* before construction: the arguments are chosen, the Manager is blank
InitLadder ==
  /\ cfg \in {c \in LadderConfigs : c.min_block_size <= c.max_block_size}
  /\ data = <<>>
  /\ tm = <<>>
  /\ internal_btree = {}
  /\ external_btree = <<>>
  /\ aligned = FALSE
  /\ heap = <<>>
  /\ err = "none"
  /\ live = <<>>
  /\ last = Idle
  /\ mutex = NULL
  /\ th = <<>>

\* tbman_s_create: tbman_s_init runs on the chosen arguments
Create ==
  /\ last.op = "idle"
  /\ LET m == tbman_s_init(cfg)
     IN /\ data' = m.data
        /\ tm' = m.tm
        /\ internal_btree' = m.internal_btree
        /\ external_btree' = m.external_btree
        /\ aligned' = m.aligned
        /\ heap' = m.heap
        /\ err' = m.err
  /\ last' = [Idle EXCEPT !.op = "create"]
  /\ UNCHANGED <<cfg, live, mutex, th>>

NextLadder == Create

SpecLadder == InitLadder /\ [][NextLadder]_vars

\* ------------------------------------------------------------------ C20
\* C20: for 1 <= min_block_size <= max_block_size and stepping >= 1 the
\* class sizes are strictly increasing, the first is min_block_size and the
\* last is max_block_size; a request of max_block_size bytes is served by the
\* last class and a request of max_block_size + 1 bytes by no class
C20_Ladder ==
  last.op = "create" =>
    /\ Len(data) >= 1
    /\ \A i \in 1..(Len(data) - 1) : data[i].block_size < data[i + 1].block_size
    /\ data[1].block_size = cfg.min_block_size
    /\ data[Len(data)].block_size = cfg.max_block_size
    /\ scan_block_size_array(M, cfg.max_block_size) = Len(data)
    /\ scan_block_size_array(M, cfg.max_block_size + 1) = 0

\* ------------------------------------------------ threads and the mutex
\* Several threads share one Manager.  Each entry point is split where the
\* source constructs and destroys its lock_guard: a thread enters (taking
\* the mutex if the entry point has a lock_guard), works on the Manager as it
\* found it on entry, and leaves (writing its result, releasing the mutex).
Threads == {1, 2}

\* the request sizes of the threads: one of a size class, one oversize
ReqSizesMT == {cfg.min_block_size, cfg.max_block_size + 1}

\* the configuration of the shared Manager
ConfigMT ==
  CHOOSE c \in Configs : c.full_align /\ c.max_block_size = 2 * c.min_block_size

\* the entry points that construct a lock_guard on o->mutex, were
\* tbman_s_alloc and tbman_s_nalloc to construct none
takes_mutex_unguarded_alloc(entry) ==
  entry \in {"total_granted_space", "total_instances", "for_each_instance",
             "down"}

\* the entry points whose body constructs a lock_guard on o->mutex
takes_mutex(entry) ==
  entry \in {"alloc", "nalloc", "total_granted_space", "total_instances",
             "for_each_instance", "down"}

\* the lock_guard of tbman_s_for_each_instance is alive while the callbacks
\* run, in a variant whose guard has the scope of the function
callback_under_guard_function_scope == TRUE

\* the lock_guard of tbman_s_for_each_instance is alive while the callbacks
\* run: no, its block ends before the callback loop
callback_under_guard == FALSE

\* a thread that runs no entry point: the blocks it holds, the pairs it has
\* still to do
ThreadIdle(own, pairs) ==
  [pc |-> "idle", entry |-> "none", own |-> own, pairs |-> pairs,
   cur |-> NULL, req |-> 0, r |-> <<>>, pre |-> <<>>,
   size |-> 0, arr |-> <<>>, i |-> 0, past_end |-> 0]

\* the positions inside tbman_s_down
DownPcs == {"down_sum", "down_count", "down_guard", "down_cs", "gone"}

\* the process runs and the Manager is not being destroyed
Running == err = "none" /\ \A u \in Threads : th[u].pc \notin DownPcs

\* the mutex after thread t enters / may t enter / the mutex after t leaves
CanAcquire(entry) == takes_mutex(entry) => mutex = NULL
Acquire(t, entry) == IF takes_mutex(entry) THEN t ELSE mutex
Release(t) == IF mutex = t THEN NULL ELSE mutex

MgrVars ==
  <<cfg, data, tm, internal_btree, external_btree, aligned, heap, err>>

InitMT ==
  /\ cfg = ConfigMT
  /\ LET m == tbman_s_init(cfg)
     IN /\ data = m.data
        /\ tm = m.tm
        /\ internal_btree = m.internal_btree
        /\ external_btree = m.external_btree
        /\ aligned = m.aligned
        /\ heap = m.heap
        /\ err = m.err
  /\ live = <<>>
  /\ last = Idle
  /\ mutex = NULL
  /\ th = [t \in Threads |-> ThreadIdle({}, MaxPairs)]

\* tbman_s_alloc or tbman_s_nalloc, by the name of the entry point
Call(entry, m, cur, cur_size, req, a) ==
  IF entry = "alloc" THEN tbman_s_alloc(m, cur, req, a)
  ELSE tbman_s_nalloc(m, cur, cur_size, req, a)

\* thread t enters tbman_s_alloc or tbman_s_nalloc for a new block (it holds
\* none and has pairs to do) or to free the block it holds
AllocEnter(t) ==
  /\ Running
  /\ th[t].pc = "idle"
  /\ \E entry \in {"alloc", "nalloc"}, cur \in {NULL} \cup th[t].own,
        req \in {0} \cup ReqSizesMT :
       /\ cur = NULL => (req > 0 /\ th[t].own = {} /\ th[t].pairs > 0)
       /\ cur # NULL => req = 0
       /\ CanAcquire(entry)
       /\ \E m \in {M}, cur_size \in {IF cur = NULL THEN 0 ELSE live[cur]} :
            \E dry \in {Call(entry, m, cur, cur_size, req, NULL)} :
              \E a \in PlatformChoices(dry.m.preq) :
                \E r \in {Call(entry, m, cur, cur_size, req, a)} :
                  th' = [th EXCEPT ![t] =
                           [@ EXCEPT !.pc = "alloc_cs", !.entry = entry,
                                     !.cur = cur, !.req = req, !.r = r,
                                     !.pre = m]]
       /\ mutex' = Acquire(t, entry)
  /\ UNCHANGED <<MgrVars, live, last>>

\* thread t leaves tbman_s_alloc or tbman_s_nalloc: what it did to the
\* Manager it found on entry is in memory, the result is with the caller
AllocExit(t) ==
  /\ err = "none"
  /\ th[t].pc = "alloc_cs"
  /\ \E r \in {th[t].r} :
       /\ cfg' = cfg
       /\ data' = r.m.data
       /\ tm' = r.m.tm
       /\ internal_btree' = r.m.internal_btree
       /\ external_btree' = r.m.external_btree
       /\ aligned' = r.m.aligned
       /\ heap' = r.m.heap
       /\ err' = r.m.err
       /\ live' = IF r.m.err # "none" THEN live
                  ELSE IF th[t].req = 0 THEN Drop(live, th[t].cur)
                  ELSE Put(live, r.ret, r.granted)
       /\ th' = [th EXCEPT ![t] =
                   IF r.m.err # "none" THEN @
                   ELSE IF th[t].req = 0
                     THEN ThreadIdle(th[t].own \ {th[t].cur}, th[t].pairs - 1)
                   ELSE ThreadIdle(th[t].own \cup {r.ret}, th[t].pairs)]
  /\ mutex' = Release(t)
  /\ UNCHANGED last

\* thread t is inside an entry point without the mutex while another thread
\* is inside one that writes the Manager
Race(t) ==
  /\ mutex # t
  /\ \E u \in Threads \ {t} : th[u].pc \in {"alloc_cs", "down_cs"}

\* thread t enters tbman_s_granted_space, tbman_s_total_granted_space or
\* tbman_s_total_instances
ReadEnter(t) ==
  /\ Running
  /\ th[t].pc = "idle"
  /\ \E entry \in {"granted_space", "total_granted_space", "total_instances"} :
       /\ CanAcquire(entry)
       /\ th' = [th EXCEPT ![t] = [@ EXCEPT !.pc = "read_cs", !.entry = entry]]
       /\ mutex' = Acquire(t, entry)
  /\ UNCHANGED <<MgrVars, live, last>>

\* thread t leaves it; a read that raced with a write is a data race, after
\* which the process may go on or abort
ReadExit(t) ==
  /\ err = "none"
  /\ th[t].pc = "read_cs"
  /\ \E abort \in {FALSE, Race(t)} :
       err' = IF abort THEN "undefined: data race" ELSE err
  /\ th' = [th EXCEPT ![t] = ThreadIdle(th[t].own, th[t].pairs)]
  /\ mutex' = Release(t)
  /\ UNCHANGED <<cfg, data, tm, internal_btree, external_btree, aligned, heap,
                 live, last>>

\* an entry of the snapshot buffer that the collection did not write
Uninitialised == <<-1, -1>>

\* thread t enters tbman_s_for_each_instance and, in it, the call of
\* tbman_s_total_instances that sizes the snapshot buffer
FeSizeEnter(t) ==
  /\ Running
  /\ th[t].pc = "idle"
  /\ CanAcquire("total_instances")
  /\ th' = [th EXCEPT ![t] =
              [@ EXCEPT !.pc = "fe_size_cs", !.entry = "for_each_instance"]]
  /\ mutex' = Acquire(t, "total_instances")
  /\ UNCHANGED <<MgrVars, live, last>>

\* tbman_s_total_instances returns the size; with size 0 the entry point
\* returns, else the buffer of that many entries is allocated
FeSizeExit(t) ==
  /\ err = "none"
  /\ th[t].pc = "fe_size_cs"
  /\ \E size \in {tbman_s_total_instances(M)} :
       th' = [th EXCEPT ![t] =
                IF size = 0 THEN ThreadIdle(th[t].own, th[t].pairs)
                ELSE [@ EXCEPT !.pc = "fe_sized", !.size = size]]
  /\ mutex' = Release(t)
  /\ UNCHANGED <<MgrVars, live, last>>

\* thread t constructs the lock_guard of the collection block
FeCollectEnter(t) ==
  /\ err = "none"
  /\ th[t].pc = "fe_sized"
  /\ CanAcquire("for_each_instance")
  /\ th' = [th EXCEPT ![t] = [@ EXCEPT !.pc = "fe_collect_cs"]]
  /\ mutex' = Acquire(t, "for_each_instance")
  /\ UNCHANGED <<MgrVars, live, last>>

\* the collection: external then internal pairs go into the buffer.  If
\* their number is not the size of the buffer, a build with assertions aborts
\* (arr->size < arr->space in the collect callback, arr.size == arr.space
\* after it); a build without them writes past the end of the buffer, or
\* leaves entries unwritten, and goes on to the callbacks.
FeCollectExit(t) ==
  /\ err = "none"
  /\ th[t].pc = "fe_collect_cs"
  /\ \E pairs \in {tbman_s_external_for_each_instance(M)
                     \o tbman_s_internal_for_each_instance(M)} :
       \E ndebug \in {TRUE, Len(pairs) = th[t].size} :
         IF ndebug
           THEN /\ th' = [th EXCEPT ![t] =
                            [@ EXCEPT
                               !.pc = "fe_cb",
                               !.i = 0,
                               !.arr = [k \in 1..th[t].size |->
                                          IF k <= Len(pairs) THEN pairs[k]
                                          ELSE Uninitialised],
                               !.past_end =
                                 IF Len(pairs) > th[t].size
                                   THEN Len(pairs) - th[t].size ELSE 0]]
                /\ err' = err
           ELSE /\ th' = th
                /\ err' = IF Len(pairs) > th[t].size
                            THEN "assert: arr->size < arr->space"
                            ELSE "assert: arr.size == arr.space"
  /\ mutex' = IF callback_under_guard THEN mutex ELSE Release(t)
  /\ UNCHANGED <<cfg, data, tm, internal_btree, external_btree, aligned, heap,
                 live, last>>

\* the next callback is invoked on arr[i]; the callback calls
\* tbman_s_total_instances of the same Manager, which takes the mutex
FeCallback(t) ==
  /\ err = "none"
  /\ th[t].pc = "fe_cb"
  /\ th[t].i < th[t].size
  /\ CanAcquire("total_instances")
  /\ th' = [th EXCEPT ![t] = [@ EXCEPT !.i = @ + 1]]
  /\ UNCHANGED <<MgrVars, live, last, mutex>>

\* tbman_s_for_each_instance returns after the last callback
FeReturn(t) ==
  /\ err = "none"
  /\ th[t].pc = "fe_cb"
  /\ th[t].i = th[t].size
  /\ th' = [th EXCEPT ![t] = ThreadIdle(th[t].own, th[t].pairs)]
  /\ mutex' = Release(t)
  /\ UNCHANGED <<MgrVars, live, last>>

\* thread t enters tbman_s_down while no other thread is in an entry point
DownEnter(t) ==
  /\ Running
  /\ \A u \in Threads : th[u].pc = "idle"
  /\ th' = [th EXCEPT ![t] = [@ EXCEPT !.pc = "down_sum", !.entry = "down"]]
  /\ UNCHANGED <<MgrVars, live, last, mutex>>

\* tbman_s_down calls tbman_s_total_granted_space, which takes the mutex
DownSum(t) ==
  /\ err = "none"
  /\ th[t].pc = "down_sum"
  /\ CanAcquire("total_granted_space")
  /\ th' = [th EXCEPT ![t] =
              [@ EXCEPT !.pc = IF tbman_s_total_granted_space(M) > 0
                                 THEN "down_count" ELSE "down_guard"]]
  /\ UNCHANGED <<MgrVars, live, last, mutex>>

\* with leaking bytes it calls tbman_s_total_instances, which takes the mutex
DownCount(t) ==
  /\ err = "none"
  /\ th[t].pc = "down_count"
  /\ CanAcquire("total_instances")
  /\ th' = [th EXCEPT ![t] = [@ EXCEPT !.pc = "down_guard"]]
  /\ UNCHANGED <<MgrVars, live, last, mutex>>

\* it constructs its own lock_guard
DownGuard(t) ==
  /\ err = "none"
  /\ th[t].pc = "down_guard"
  /\ CanAcquire("down")
  /\ th' = [th EXCEPT ![t] = [@ EXCEPT !.pc = "down_cs"]]
  /\ mutex' = Acquire(t, "down")
  /\ UNCHANGED <<MgrVars, live, last>>

\* it discards the block managers with their pools and the two trees (the
\* external blocks stay with the platform) and returns
DownExit(t) ==
  /\ err = "none"
  /\ th[t].pc = "down_cs"
  /\ data' = <<>>
  /\ tm' = <<>>
  /\ internal_btree' = {}
  /\ external_btree' = <<>>
  /\ heap' = [p \in DOMAIN external_btree \cap DOMAIN heap |-> heap[p]]
  /\ th' = [th EXCEPT ![t] = [@ EXCEPT !.pc = "gone"]]
  /\ mutex' = Release(t)
  /\ UNCHANGED <<cfg, aligned, err, live, last>>

NextMT ==
  \E t \in Threads :
    \/ AllocEnter(t) \/ AllocExit(t)
    \/ ReadEnter(t) \/ ReadExit(t)
    \/ FeSizeEnter(t) \/ FeSizeExit(t)
    \/ FeCollectEnter(t) \/ FeCollectExit(t)
    \/ FeCallback(t) \/ FeReturn(t)
    \/ DownEnter(t) \/ DownSum(t) \/ DownCount(t) \/ DownGuard(t)
    \/ DownExit(t)

SpecMT == InitMT /\ [][NextMT]_vars

\* ------------------------------------------------------------------ C12
\* the positions at which a thread reads or writes the trees and the pool
\* bookkeeping, and those at which it writes them
AccessPcs == {"alloc_cs", "read_cs", "fe_size_cs", "fe_collect_cs", "down_cs"}
WritePcs == {"alloc_cs", "down_cs"}

\* C12: a thread that is reading or writing the trees or the pool
\* bookkeeping inside a public entry point holds the mutex, and no thread
\* reads them while another thread is inside a writing critical section
C12_MutexHeld ==
  \A t \in Threads :
    th[t].pc \in AccessPcs =>
      /\ mutex = t
      /\ \A u \in Threads \ {t} : th[u].pc \notin WritePcs

\* ------------------------------------------------------------------ C13
\* every thread has done its pairs and is in no entry point
AllDone ==
  \A t \in Threads :
    th[t].pc = "idle" /\ th[t].pairs = 0 /\ th[t].own = {}

C14_SnapshotConsistent ==
  /\ err \notin {"assert: arr->size < arr->space",
                 "assert: arr.size == arr.space"}
  /\ \A t \in Threads :
       th[t].pc = "fe_cb" =>
         /\ th[t].past_end = 0
         /\ \A k \in 1..th[t].size : th[t].arr[k] # Uninitialised

\* ------------------------------------------------------------------ C15
\* the positions from which the next step of a thread takes the mutex
AcquirePcs ==
  {"idle", "fe_sized", "fe_cb", "down_sum", "down_count", "down_guard"}

\* C15: while the callbacks of tbman_s_for_each_instance run the calling
\* thread does not hold the mutex, and no thread is about to take the mutex
\* while it holds it
C15_NoSelfDeadlock ==
  \A t \in Threads : th[t].pc \in AcquirePcs => mutex # t

\* a callback has made its call into the Manager and the next one is due
\* while the other thread is inside a critical section
C15_Witness ==
  \E t \in Threads :
    /\ th[t].pc = "fe_cb"
    /\ th[t].i >= 1
    /\ th[t].i < th[t].size
    /\ mutex \in Threads \ {t}

\* ------------------------------- tbman_s_init, statement by statement
\* One thread runs tbman_s_init; th[1] holds its position and its locals:
\* "mask" is the head of the mask-search loop (line 548), "emit" the head of
\* the class-emission loop (line 552), "done" the return.
InitConfigs ==
  {[pool_size |-> 512, min_block_size |-> lo, max_block_size |-> hi,
    stepping_method |-> s, full_align |-> TRUE] :
     lo \in 1..MaxLadderBlock, hi \in 1..MaxLadderBlock, s \in 0..MaxStepping}

\* lines 534-547: the Manager is blank, the locals are set
InitCtor ==
  /\ cfg \in {c \in InitConfigs : c.min_block_size <= c.max_block_size}
  /\ data = <<>>
  /\ tm = <<>>
  /\ internal_btree = {}
  /\ external_btree = <<>>
  /\ aligned = FALSE
  /\ heap = <<>>
  /\ err = "none"
  /\ live = <<>>
  /\ last = Idle
  /\ mutex = NULL
  /\ th = <<[pc |-> "mask",
             size_mask |-> Pow2(cfg.stepping_method) - 1,
             size_inc |-> cfg.min_block_size,
             block_size |-> 0]>>

\* the condition of the while loop of line 548
mask_search_continues(size_mask, min_block_size) ==
  size_mask < min_block_size \/ BitAnd(size_mask * 2, min_block_size) # 0

\* line 548, the condition holds: size_mask <<= 1
InitMaskLoop ==
  /\ th[1].pc = "mask"
  /\ mask_search_continues(th[1].size_mask, cfg.min_block_size)
  /\ th' = [th EXCEPT ![1].size_mask = @ * 2]
  /\ UNCHANGED <<cfg, data, tm, internal_btree, external_btree, aligned, heap,
                 err, live, last, mutex>>

\* line 548, the condition fails: the emission loop starts at min_block_size
InitMaskExit ==
  /\ th[1].pc = "mask"
  /\ ~mask_search_continues(th[1].size_mask, cfg.min_block_size)
  /\ th' = [th EXCEPT ![1].pc = "emit", ![1].block_size = cfg.min_block_size]
  /\ UNCHANGED <<cfg, data, tm, internal_btree, external_btree, aligned, heap,
                 err, live, last, mutex>>

\* A mask-search loop whose condition can never fail (size_mask == 0) has no
\* side effect: the language lets the build assume it ends, and a build that
\* does so goes on with size_mask as it is.
InitMaskAssumedFinite ==
  /\ th[1].pc = "mask"
  /\ th[1].size_mask = 0
  /\ th' = [th EXCEPT ![1].pc = "emit", ![1].block_size = cfg.min_block_size]
  /\ UNCHANGED <<cfg, data, tm, internal_btree, external_btree, aligned, heap,
                 err, live, last, mutex>>

\* lines 552-573, block_size <= max_block_size: one block manager is appended
InitEmitLoop ==
  /\ th[1].pc = "emit"
  /\ th[1].block_size <= cfg.max_block_size
  /\ data' = Append(data, block_manager_s_create(cfg.pool_size,
                                                 th[1].block_size,
                                                 cfg.full_align))
  /\ th' = IF th[1].block_size > th[1].size_mask
             THEN [th EXCEPT ![1].size_mask = @ * 2,
                             ![1].size_inc = @ * 2,
                             ![1].block_size = @ + th[1].size_inc * 2]
             ELSE [th EXCEPT ![1].block_size = @ + th[1].size_inc]
  /\ UNCHANGED <<cfg, tm, internal_btree, external_btree, aligned, heap, err,
                 live, last, mutex>>

\* lines 552, 575-583: block_size > max_block_size, the constructor returns
InitEmitExit ==
  /\ th[1].pc = "emit"
  /\ th[1].block_size > cfg.max_block_size
  /\ aligned' = \A i \in 1..Len(data) : data[i].aligned
  /\ th' = [th EXCEPT ![1].pc = "done"]
  /\ UNCHANGED <<cfg, data, tm, internal_btree, external_btree, heap, err,
                 live, last, mutex>>

NextInit ==
  InitMaskLoop \/ InitMaskExit \/ InitMaskAssumedFinite \/ InitEmitLoop
    \/ InitEmitExit

\* every statement of the constructor that can run does run; that a build
\* drops a loop is never certain
SpecInit ==
  /\ InitCtor
  /\ [][NextInit]_vars
  /\ WF_vars(InitMaskLoop)
  /\ WF_vars(InitMaskExit)
  /\ WF_vars(InitEmitLoop)
  /\ WF_vars(InitEmitExit)

\* ------------------------------------------------------------------ C21
\* C21: for every stepping_method >= 0 and min_block_size >= 1 the
\* constructor returns (both loops end), and for stepping_method = 0 the
\* block sizes are min_block_size, 2 * min_block_size, 4 * min_block_size,
\* ... as far as max_block_size allows
C21_ConstructionTerminates ==
  /\ <>(th[1].pc = "done")
  /\ [](th[1].pc = "done" /\ cfg.stepping_method = 0 =>
          /\ \A i \in 1..Len(data) :
               data[i].block_size = cfg.min_block_size * Pow2(i - 1)
          /\ cfg.min_block_size * Pow2(Len(data)) > cfg.max_block_size)

\* ------------------------------------------ token_manager_s_create alone
\* The arguments (pool_size, block_size) of token_manager_s_create: small
\* pools of every block size, a pool size that is no power of two, and the
\* pools whose token stack has exactly 0x10000 entries.
CreatePairs ==
  {<<P, B>> : P \in {Pow2(k) : k \in 6..MaxPoolExp} \cup {96},
              B \in 1..MaxCreateBlock}
    \cup {<<UINT16 * B, B>> : B \in {2, 4, 8}}

\* before the call: the arguments are chosen; no pool exists
InitCreate ==
  /\ \E pb \in CreatePairs :
       cfg = [pool_size |-> pb[1], min_block_size |-> pb[2],
              max_block_size |-> pb[2], stepping_method |-> 1,
              full_align |-> TRUE]
  /\ data = <<>>
  /\ tm = <<>>
  /\ internal_btree = {}
  /\ external_btree = <<>>
  /\ aligned = TRUE
  /\ heap = <<>>
  /\ err = "none"
  /\ live = <<>>
  /\ last = Idle
  /\ mutex = NULL
  /\ th = <<>>

\* token_manager_s_create(pool_size, block_size, true), the platform
\* returning one of two addresses aligned to pool_size
PoolCreate ==
  /\ last.op = "idle"
  /\ \E a \in {cfg.pool_size, 2 * cfg.pool_size} :
       \E r \in {token_manager_s_create(M, cfg.pool_size, cfg.min_block_size,
                                        cfg.full_align, a)} :
         /\ tm' = r.m.tm
         /\ heap' = r.m.heap
         /\ err' = r.m.err
         /\ last' = [Idle EXCEPT !.op = "pool_create", !.ret = r.o]
  /\ UNCHANGED <<cfg, data, internal_btree, external_btree, aligned, live,
                 mutex, th>>

NextCreate == PoolCreate

SpecCreate == InitCreate /\ [][NextCreate]_vars

\* ------------------------------------------------------------------ C22
\* C22: token_manager_s_create accepts every (P, B) with P a power of two,
\* S = P / B <= 65536 and S > reserved_blocks; the pool it creates has
\* stack_size = S, token_stack[k] = k + reserved_blocks for
\* k < S - reserved_blocks, and token_stack[S - reserved_blocks] = 0
C22_PoolCreation ==
  LET P == cfg.pool_size
      B == cfg.min_block_size
      S == P \div B
      rb == reserved_blocks(P, B)
  IN (last.op = "pool_create" /\ BitAnd(P, P - 1) = 0 /\ S <= UINT16 /\ S > rb) =>
       /\ err = "none"
       /\ last.ret \in DOMAIN tm
       /\ tm[last.ret].stack_size = S
       /\ DOMAIN tm[last.ret].token_stack = 0..(S - 1)
       /\ \A k \in 0..(S - rb - 1) : tm[last.ret].token_stack[k] = k + rb
       /\ tm[last.ret].token_stack[S - rb] = 0

\* ------------------------------------------- many pools of one Manager
\* A client of a Manager with one size class and platform memory of
\* PoolSlots * 512 bytes above address 512: either up to PoolSlots pools of
\* one block each (enough for a block manager to keep an empty pool), or a
\* few pools of three blocks each.  The client (th[1]) first allocates any
\* number of blocks up to MaxHeld, then makes up to MaxChurn calls of any
\* kind on the blocks it holds.
PoolsConfigs ==
  { [pool_size |-> 512, min_block_size |-> 256, max_block_size |-> 256,
     stepping_method |-> 1, full_align |-> TRUE],
    [pool_size |-> 1024, min_block_size |-> 256, max_block_size |-> 256,
     stepping_method |-> 1, full_align |-> TRUE] }

InitPools ==
  /\ cfg \in PoolsConfigs
  /\ LET m == tbman_s_init(cfg)
     IN /\ data = m.data
        /\ tm = m.tm
        /\ internal_btree = m.internal_btree
        /\ external_btree = m.external_btree
        /\ aligned = m.aligned
        /\ heap = m.heap
        /\ err = m.err
  /\ live = <<>>
  /\ last = Idle
  /\ mutex = NULL
  /\ th = <<[pc |-> "client", calls |-> 0]>>

\* the address the platform returns for a pool: NULL when no room is left,
\* else the lowest address with room
PoolsPlatformChoices(preq) ==
  IF preq = <<>> THEN {NULL}
  ELSE Let({a \in {k * preq[1] : k \in 1..PoolSlots} :
              /\ a + preq[2] <= (PoolSlots + 1) * 512
              /\ \A b \in DOMAIN heap : a + preq[2] <= b \/ b + heap[b] <= a},
           LAMBDA fits :
             IF fits = {} THEN {NULL}
             ELSE {a \in fits : \A b \in fits : a <= b})

\* the client may make the call: a new allocation while it has made no other
\* call is free of charge, every other call counts against MaxChurn
PoolsMayCall(cur, req) ==
  /\ (cur = NULL /\ req > 0) => Cardinality(DOMAIN live) < MaxHeld
  /\ (cur # NULL \/ th[1].calls > 0) => th[1].calls < MaxChurn

\* the state after a public call with result r made in state m, and the
\* client's record of it
PoolsCommit(m, r, op, cur, cur_size, req) ==
  /\ data' = r.m.data
  /\ tm' = r.m.tm
  /\ internal_btree' = r.m.internal_btree
  /\ external_btree' = r.m.external_btree
  /\ aligned' = r.m.aligned
  /\ heap' = r.m.heap
  /\ err' = r.m.err
  /\ live' = IF r.m.err # "none" THEN live
             ELSE IF req = 0 THEN Drop(live, cur)
             ELSE Put(Drop(live, cur), r.ret, r.granted)
  /\ last' = [op |-> op, cur |-> cur, cur_size |-> cur_size, req |-> req,
              ret |-> r.ret, granted |-> r.granted, pre |-> m,
              pre_live |-> live]
  /\ th' = IF cur # NULL \/ th[1].calls > 0
             THEN [th EXCEPT ![1].calls = @ + 1] ELSE th
  /\ UNCHANGED <<cfg, mutex>>

\* tbman_s_alloc: a new block, a realloc or a free of a block the client holds
PoolsAlloc ==
  /\ err = "none"
  /\ \E m \in {M}, cur \in {NULL} \cup DOMAIN live,
        req \in {0, cfg.min_block_size} :
       /\ PoolsMayCall(cur, req)
       /\ \E dry \in {tbman_s_alloc(m, cur, req, NULL)} :
            \E a \in PoolsPlatformChoices(dry.m.preq) :
              \E r \in {tbman_s_alloc(m, cur, req, a)} :
                 PoolsCommit(m, r, "alloc", cur, 0, req)

\* tbman_s_nalloc with the granted size of the block as current_size
PoolsNAlloc ==
  /\ err = "none"
  /\ \E m \in {M}, cur \in {NULL} \cup DOMAIN live,
        req \in {0, cfg.min_block_size} :
       /\ PoolsMayCall(cur, req)
       /\ \E cur_size \in {IF cur = NULL THEN 0 ELSE live[cur]} :
            \E dry \in {tbman_s_nalloc(m, cur, cur_size, req, NULL)} :
              \E a \in PoolsPlatformChoices(dry.m.preq) :
                \E r \in {tbman_s_nalloc(m, cur, cur_size, req, a)} :
                   PoolsCommit(m, r, "nalloc", cur, cur_size, req)

NextPools == PoolsAlloc \/ PoolsNAlloc

SpecPools == InitPools /\ [][NextPools]_vars

\* ----------------------------------------- vocabulary of the pool claims
\* the token manager at index k (0-based, as in the source) of class c
PoolAt(m, c, k) == m.tm[m.data[c].data[k + 1]]

\* the blocks a pool can hold
Capacity(o) == o.stack_size - reserved_blocks(o.pool_size, o.block_size)

\* the blocks of the pool at base that the client holds
HeldIn(m, lv, base) ==
  {p \in DOMAIN lv : base <= p /\ p < base + m.tm[base].pool_size}

\* the indices of the empty and of the non-empty pools of class c
EmptyPools(m, c) ==
  {k \in 0..(Len(m.data[c].data) - 1) : PoolAt(m, c, k).stack_index = 0}
NonEmptyPools(m, c) ==
  {k \in 0..(Len(m.data[c].data) - 1) : PoolAt(m, c, k).stack_index # 0}

\* ------------------------------------------------------------------ C23
\* C23: after every public operation, in every block manager free_index <=
\* size, the pools below free_index are full (they have no free block left),
\* the pools from free_index on are not, and the empty pools are the last
\* ones of the vector
C23_Partition ==
  err = "none" =>
    \A c \in 1..Len(data) :
      /\ data[c].free_index <= Len(data[c].data)
      /\ \A k \in 0..(Len(data[c].data) - 1) :
           /\ (k < data[c].free_index) = token_manager_s_is_full(PoolAt(M, c, k))
           /\ (k < data[c].free_index)
                = (Cardinality(HeldIn(M, live, data[c].data[k + 1]))
                     = Capacity(PoolAt(M, c, k)))
      /\ \A j \in EmptyPools(M, c), k \in NonEmptyPools(M, c) : k < j

\* a free has emptied a full pool that was not the last one of its block
\* manager; the pool is kept, empty, behind the full ones
C23_Witness ==
  /\ err = "none"
  /\ last.cur # NULL /\ last.req = 0
  /\ \E c \in 1..Len(data) :
       LET size == Len(data[c].data)
           base == CHOOSE b \in OwnerPools(last.pre, last.cur) : TRUE
       IN /\ size >= 2
          /\ OwnerPools(last.pre, last.cur) # {}
          /\ last.pre.tm[base].parent_index < size - 1
          /\ base \in DOMAIN tm
          /\ tm[base].parent_index = size - 1
          /\ tm[base].stack_index = 0
          /\ data[c].free_index = size - 1

\* ------------------------------------------------------------------ C24
\* C24: in every token manager, after any allocs and frees of blocks the
\* client holds, stack_index <= S - reserved_blocks; the entries
\* token_stack[stack_index .. S - reserved_blocks) are pairwise distinct and
\* are the tokens of the blocks that are free, each >= reserved_blocks; the
\* entry token_stack[S - reserved_blocks] is 0, and the pool is full exactly
\* when stack_index = S - reserved_blocks
C24_FreeList ==
  err = "none" =>
    \A base \in DOMAIN tm :
      LET o == tm[base]
          rb == reserved_blocks(o.pool_size, o.block_size)
          free == o.stack_index .. (Capacity(o) - 1)
      IN /\ o.stack_index <= Capacity(o)
         /\ \A i, j \in free : i # j => o.token_stack[i] # o.token_stack[j]
         /\ {o.token_stack[i] : i \in free}
              = {t \in rb..(o.stack_size - 1) :
                   base + t * o.block_size \notin DOMAIN live}
         /\ o.token_stack[Capacity(o)] = 0
         /\ token_manager_s_is_full(o) = (o.stack_index = Capacity(o))

\* a block that was not the last one handed out has been freed in a pool of
\* three blocks that was full
C24_Witness ==
  /\ err = "none"
  /\ last.cur # NULL /\ last.req = 0
  /\ \E base \in OwnerPools(last.pre, last.cur) :
       /\ Capacity(last.pre.tm[base]) = 3
       /\ token_manager_s_is_full(last.pre.tm[base])
       /\ base \in DOMAIN tm
       /\ tm[base].stack_index = 2
       /\ tm[base].token_stack[2] # last.pre.tm[base].token_stack[2]

\* ------------------------------------------------------------------ C25
\* C25: after every public operation, in every token manager
\* 0 <= stack_index <= S, and the tokens in token_stack[0 .. stack_index) are
\* pairwise distinct and all >= reserved_blocks
C25_UsedTokens ==
  err = "none" =>
    \A base \in DOMAIN tm :
      LET o == tm[base]
          rb == reserved_blocks(o.pool_size, o.block_size)
          used == 0 .. (o.stack_index - 1)
      IN /\ 0 <= o.stack_index /\ o.stack_index <= o.stack_size
         /\ \A i, j \in used : i # j => o.token_stack[i] # o.token_stack[j]
         /\ \A i \in used : o.token_stack[i] >= rb

\* ------------------------------------------------------------------ C26
\* C26: with S = pool_size / block_size, every pool below the free_index of
\* its block manager has stack_index = S and every pool from free_index on
\* has stack_index < S
C26_FullMeansAllSlots ==
  err = "none" =>
    \A c \in 1..Len(data) :
      \A k \in 0..(Len(data[c].data) - 1) :
        LET o == PoolAt(M, c, k)
            S == o.pool_size \div o.block_size
        IN IF k < data[c].free_index THEN o.stack_index = S
           ELSE o.stack_index < S

\* ------------------------------------------------------------------ C27
\* the classes that have more pools, or a pool at a new address, after the
\* call that has just returned than before it
GrownClasses ==
  {c \in 1..Len(data) :
     \/ Len(data[c].data) > Len(last.pre.data[c].data)
     \/ \E k \in 1..Len(data[c].data) :
          data[c].data[k] \notin DOMAIN last.pre.tm}

\* C27: a pool never holds more than S - reserved_blocks blocks and is full
\* exactly when it holds that many; a block manager gets a new pool only in
\* an allocating call at whose start free_index = size, i.e. when every pool
\* it had was full, and then by exactly one pool
C27_CapacityAndCreation ==
  err = "none" =>
    /\ \A base \in DOMAIN tm :
         /\ Cardinality(HeldIn(M, live, base)) <= Capacity(tm[base])
         /\ token_manager_s_is_full(tm[base])
              = (Cardinality(HeldIn(M, live, base)) = Capacity(tm[base]))
    /\ last.op # "idle" =>
         \A c \in GrownClasses :
           LET before == last.pre.data[c]
           IN /\ last.req > 0
              /\ before.free_index = Len(before.data)
              /\ \A k \in 1..Len(before.data) :
                   Cardinality(HeldIn(last.pre, last.pre_live, before.data[k]))
                     = Capacity(last.pre.tm[before.data[k]])
              /\ Len(data[c].data) = Len(before.data) + 1
              /\ last.ret \in HeldIn(M, live, data[c].data[Len(data[c].data)])

\* a new allocation found the pools of its class, of three blocks each, all
\* full and was served from a pool created for it
C27_Witness ==
  /\ err = "none"
  /\ last.op # "idle" /\ last.cur = NULL /\ last.req > 0
  /\ \E c \in GrownClasses :
       /\ Len(last.pre.data[c].data) >= 1
       /\ \A k \in 1..Len(last.pre.data[c].data) :
            Capacity(last.pre.tm[last.pre.data[c].data[k]]) = 3
       /\ last.ret \in HeldIn(M, live, data[c].data[Len(data[c].data)])

\* ------------------------------------------------------------------ C28
\* the pools that existed before the call that has just returned and do not
\* exist after it
Removed == DOMAIN last.pre.tm \ DOMAIN tm

\* the call that has just returned freed the only block in use of its pool
EmptiedPool ==
  /\ last.op # "idle"
  /\ last.cur # NULL
  /\ last.cur \notin DOMAIN live
  /\ \E base \in OwnerPools(last.pre, last.cur) :
       last.pre.tm[base].stack_index = 1

IdleClasses ==
  {c \in 1..Len(data) :
     \A k \in 1..Len(data[c].data) : HeldIn(M, live, data[c].data[k]) = {}}

HeldPools(m) ==
  UNION {{m.data[c].data[k] : k \in 1..Len(m.data[c].data)} :
           c \in 1..Len(m.data)}

\* C30: after every public operation the keys of internal_btree are the base
\* addresses of the token managers all block managers hold, and neither
\* "Failed registering block address" nor "Failed removing block address"
\* has occurred
C30_IndexIntegrity ==
  /\ err \notin {"Failed registering block address.",
                 "Failed removing block address."}
  /\ err = "none" =>
       /\ internal_btree = HeldPools(M)
       /\ internal_btree = DOMAIN tm

\* an allocation has created a pool at an address below a pool that existed
\* already: the address of a pool discarded earlier, registered again
C30_Witness ==
  /\ err = "none"
  /\ last.op # "idle" /\ last.cur = NULL /\ last.req > 0
  /\ \E base \in HeldPools(M) \ HeldPools(last.pre) :
       /\ base \in internal_btree
       /\ \E other \in HeldPools(last.pre) : base < other

\* ------------------------------------------------------------------ C31
\* the size hint of the call that has just returned, as the entry point
\* passes it on: none from tbman_s_alloc, current_size from tbman_s_nalloc
LastHint == IF last.op = "nalloc" THEN <<last.cur_size>> ELSE <<>>

\* C31: tbman_s.aligned is true after construction; once it is false it
\* stays false in every later state, also when no unaligned pool is left;
\* and in a state where it is false the owner of a block is looked up in
\* internal_btree, with or without size hint, in the call that has just
\* returned and in every call that can follow
C31_AlignmentLatch ==
  /\ aligned = TRUE
  /\ [][~aligned => ~aligned']_vars
  /\ [](/\ (last.op # "idle" /\ last.cur # NULL /\ ~last.pre.aligned) =>
             ~find_token_manager(last.pre, last.cur, LastHint).fast
        /\ (err = "none" /\ ~aligned) =>
             \A p \in DOMAIN live :
               /\ ~find_token_manager(M, p, <<>>).fast
               /\ ~find_token_manager(M, p, <<live[p]>>).fast)

\* a block is freed with its size as hint after the unaligned pool that
\* cost the Manager its alignment has been swept: every pool is aligned,
\* tbman_s.aligned is false
C31_Witness ==
  /\ err = "none"
  /\ last.op = "nalloc" /\ last.cur # NULL /\ last.req = 0
  /\ last.cur_size <= cfg.max_block_size
  /\ ~last.pre.aligned
  /\ OwnerPools(last.pre, last.cur) # {}
  /\ \A base \in DOMAIN last.pre.tm : last.pre.tm[base].aligned
  /\ ~aligned

\* ------------------------------------------------------------------ C32
\* C32: in every state, for every block manager, block_manager_s.aligned
\* is true exactly if every token manager it holds is aligned to pool_size
C32_AlignedSummary ==
  \A c \in 1..Len(data) :
    data[c].aligned <=>
      \A k \in 0..(Len(data[c].data) - 1) : PoolAt(M, c, k).aligned

\* the direction that holds: a block manager that counts as aligned holds
\* aligned token managers only
C32_AlignedImpliesPoolsAligned ==
  \A c \in 1..Len(data) :
    data[c].aligned =>
      \A k \in 0..(Len(data[c].data) - 1) : PoolAt(M, c, k).aligned

\* ------------------------------------------------------------------ C33
\* C33: after every public operation, for every block manager b and every
\* k < b.size, the token manager data[k] has parent b and parent_index k
C33_BackReferences ==
  \A c \in 1..Len(data) :
    \A k \in 0..(Len(data[c].data) - 1) :
      /\ PoolAt(M, c, k).parent = c
      /\ PoolAt(M, c, k).parent_index = k

\* the call that has just returned has freed a block
Freed == err = "none" /\ last.op # "idle" /\ last.cur # NULL /\ last.req = 0

\* the pool at position k of class c before the call is still held after it,
\* but not at position k
Moved(c, k) ==
  /\ k < Len(last.pre.data[c].data) /\ k < Len(data[c].data)
  /\ last.pre.data[c].data[k + 1] # data[c].data[k + 1]
  /\ last.pre.data[c].data[k + 1] \in HeldPools(M)

\* block_manager_s_full_to_free has swapped two pools of a block manager
FullToFreeSwapped ==
  /\ Freed
  /\ \E c \in 1..Len(data) : \E k \in 0..(Len(data[c].data) - 1) :
       /\ Moved(c, k)
       /\ PoolAt(M, c, k).parent_index = k

\* block_manager_s_full_to_free has run for a pool that already sat at the
\* new free_index: the pool was swapped with itself
FullToFreeSelfSwap ==
  /\ Freed
  /\ \E c \in 1..Len(data) :
       /\ data[c].free_index + 1 = last.pre.data[c].free_index
       /\ data[c].data = last.pre.data[c].data
       /\ Len(data[c].data) > 1
       /\ OwnerPools(last.pre, last.cur) = {data[c].data[data[c].free_index + 1]}

\* the last block of a pool that was not full has been freed while a pool
\* behind it was in use: block_manager_s_free_to_empty has swapped the two
\* (child_index < swapc_index), the sweep has discarded the empty pool, and
\* the other pool is held at the position the empty one had
C33_Witness ==
  /\ Freed
  /\ \E c \in 1..Len(data) : \E k \in 0..(Len(data[c].data) - 1) :
       /\ OwnerPools(last.pre, last.cur) = {last.pre.data[c].data[k + 1]}
       /\ ~token_manager_s_is_full(last.pre.tm[last.pre.data[c].data[k + 1]])
       /\ last.pre.data[c].data[k + 1] \notin DOMAIN tm
       /\ data[c].data[k + 1] \in DOMAIN last.pre.tm
       /\ last.pre.tm[data[c].data[k + 1]].parent_index > k
       /\ PoolAt(M, c, k).parent_index = k

====
